---- MODULE Spec2Model ----
(***************************************************************************)
(* Model of packages/turf-polygon-tangents/index.ts: polygonTangents and   *)
(* its helpers processPolygon, isAbove, isBelow and isLeft.                *)
(*                                                                         *)
(* A Position is a tuple <<x, y>> of integers.  The JavaScript value       *)
(* `undefined` (an out-of-range array read) is the value `undefined`.      *)
(* Arrays are sequences; the code's 0-based index k is position k + 1.     *)
(***************************************************************************)
EXTENDS Integers, Sequences, FiniteSets, TLC

VARIABLES
    type,            \* getType(polygon): "Polygon" or "MultiPolygon"
    polyCoords,      \* getCoords(polygon)
    pointCoords,     \* getCoords(pt)
    nearestPtIndex,  \* flattened index of the nearest vertex (0 if no lookup)
    nearest,         \* coordinates of the nearest vertex, or null
    rtan, ltan,      \* polygonTangents' running tangents
    eprev,           \* polygonTangents' eprev (seeded once)
    ringIdx,         \* forEach position over polyCoords (MultiPolygon)
    i,               \* processPolygon's loop index
    s_eprev,         \* processPolygon's parameter eprev
    s_rtan, s_ltan,  \* processPolygon's parameters rtan, ltan
    endEprev,        \* processPolygon's eprev when it last returned (history)
    edgeEvals,       \* number of edge orientations the sweeps evaluated (history)
    steps,           \* number of steps taken (history)
    pc               \* "start", "sweep", "package", "done", "crashed"

vars == <<type, polyCoords, pointCoords, nearestPtIndex, nearest, rtan, ltan,
          eprev, ringIdx, i, s_eprev, s_rtan, s_ltan, endEprev, edgeEvals,
          steps, pc>>

undefined == <<"undefined">>
null == <<"null">>
empty == <<>>

\* --------------------------------------------------------------------------
\* Bounds of the explored inputs
MaxOpen == 4      \* vertices of a closed simple ring
MaxRingLen == 3   \* stored positions of an arbitrary ring
MaxPolys == 2     \* polygons of a MultiPolygon

Grid == (0..2) \X (0..2)
RefPoints == ((0 - 1)..3) \X ((0 - 1)..3)

\* --------------------------------------------------------------------------
\* Sequences helpers
RECURSIVE SeqsOfLen(_, _)
SeqsOfLen(S, n) ==
    IF n = 0 THEN {<<>>}
    ELSE {Append(q, e) : q \in SeqsOfLen(S, n - 1), e \in S}

SeqsUpTo(S, n) == UNION {SeqsOfLen(S, k) : k \in 0..n}

Range(q) == {q[k] : k \in 1..Len(q)}

\* the sequences of n distinct elements of S
RECURSIVE DistinctSeqs(_, _)
DistinctSeqs(S, n) ==
    IF n = 0 THEN {<<>>}
    ELSE UNION {{Append(q, e) : e \in S \ Range(q)} : q \in DistinctSeqs(S, n - 1)}

RECURSIVE Flatten(_)
Flatten(ss) == IF ss = <<>> THEN <<>> ELSE Head(ss) \o Flatten(Tail(ss))

\* arr[k] of JavaScript: undefined when k is out of range
At(arr, k) == IF k >= 0 /\ k < Len(arr) THEN arr[k + 1] ELSE undefined

\* --------------------------------------------------------------------------
\* isLeft, isAbove, isBelow
isLeft(point1, point2, point3) ==
    (point2[1] - point1[1]) * (point3[2] - point1[2])
  - (point3[1] - point1[1]) * (point2[2] - point1[2])

isAbove(point1, point2, point3) == isLeft(point1, point2, point3) > 0

\* isBelow with the comparison turned round
isBelowFlipped(point1, point2, point3) == isLeft(point1, point2, point3) > 0

isBelow(point1, point2, point3) == isLeft(point1, point2, point3) < 0

\* --------------------------------------------------------------------------
\* Collaborators: explode, calcBbox, nearestPoint
explode(t, coords) ==
    IF t = "Polygon" THEN Flatten(coords)
    ELSE Flatten([k \in 1..Len(coords) |-> Flatten(coords[k])])

SetMin(S) == CHOOSE m \in S : \A n \in S : m <= n
SetMax(S) == CHOOSE m \in S : \A n \in S : m >= n

\* pt strictly inside calcBbox(polygon); the bbox of no coordinates is
\* [Infinity, Infinity, -Infinity, -Infinity], which contains nothing
insideBbox(pt, t, coords) ==
    LET vs == Range(explode(t, coords))
        xs == {v[1] : v \in vs}
        ys == {v[2] : v \in vs}
    IN  /\ vs # {}
        /\ pt[1] > SetMin(xs) /\ pt[1] < SetMax(xs)
        /\ pt[2] > SetMin(ys) /\ pt[2] < SetMax(ys)

dist2(a, b) == (a[1] - b[1]) * (a[1] - b[1]) + (a[2] - b[2]) * (a[2] - b[2])

\* 0-based index of the first vertex at minimal distance
nearestPoint(pt, vs) ==
    CHOOSE k \in 0..(Len(vs) - 1) :
        /\ \A j \in 0..(Len(vs) - 1) : dist2(pt, vs[k + 1]) <= dist2(pt, vs[j + 1])
        /\ \A j \in 0..(k - 1) : dist2(pt, vs[j + 1]) > dist2(pt, vs[k + 1])

\* --------------------------------------------------------------------------
\* Variants of processPolygon's iteration with one slip each

\* a right-tangent candidate is accepted on enext >= 0 instead of enext > 0
sweepIterationNonStrict(polygonCoords, ptCoords, k, st) ==
    LET currentCoords == polygonCoords[k + 1]
        nextCoordPair == IF k = Len(polygonCoords) - 1
                         THEN polygonCoords[1]
                         ELSE polygonCoords[k + 2]
        enext == isLeft(currentCoords, nextCoordPair, ptCoords)
    IN  IF st.eprev <= 0 /\ enext >= 0
        THEN IF st.rtan = undefined
             THEN [st EXCEPT !.crashed = TRUE]
             ELSE IF ~isBelow(ptCoords, currentCoords, st.rtan)
                  THEN [st EXCEPT !.rtan = currentCoords, !.eprev = enext]
                  ELSE [st EXCEPT !.eprev = enext]
        ELSE IF st.eprev > 0 /\ enext <= 0
        THEN IF st.ltan = undefined
             THEN [st EXCEPT !.crashed = TRUE]
             ELSE IF ~isAbove(ptCoords, currentCoords, st.ltan)
                  THEN [st EXCEPT !.ltan = currentCoords, !.eprev = enext]
                  ELSE [st EXCEPT !.eprev = enext]
        ELSE [st EXCEPT !.eprev = enext]

\* the last edge does not wrap to vertex 0: polygonCoords[i + 1] is undefined
\* there and isLeft throws
sweepIterationNoWrap(polygonCoords, ptCoords, k, st) ==
    IF k = Len(polygonCoords) - 1 THEN [st EXCEPT !.crashed = TRUE]
    ELSE LET currentCoords == polygonCoords[k + 1]
             nextCoordPair == polygonCoords[k + 2]
             enext == isLeft(currentCoords, nextCoordPair, ptCoords)
         IN  IF st.eprev <= 0 /\ enext > 0
             THEN IF st.rtan = undefined
                  THEN [st EXCEPT !.crashed = TRUE]
                  ELSE IF ~isBelow(ptCoords, currentCoords, st.rtan)
                       THEN [st EXCEPT !.rtan = currentCoords, !.eprev = enext]
                       ELSE [st EXCEPT !.eprev = enext]
             ELSE IF st.eprev > 0 /\ enext <= 0
             THEN IF st.ltan = undefined
                  THEN [st EXCEPT !.crashed = TRUE]
                  ELSE IF ~isAbove(ptCoords, currentCoords, st.ltan)
                       THEN [st EXCEPT !.ltan = currentCoords, !.eprev = enext]
                       ELSE [st EXCEPT !.eprev = enext]
             ELSE [st EXCEPT !.eprev = enext]

\* a right-tangent candidate always replaces rtan (no isBelow test)
sweepIterationNoTieBreak(polygonCoords, ptCoords, k, st) ==
    LET currentCoords == polygonCoords[k + 1]
        nextCoordPair == IF k = Len(polygonCoords) - 1
                         THEN polygonCoords[1]
                         ELSE polygonCoords[k + 2]
        enext == isLeft(currentCoords, nextCoordPair, ptCoords)
    IN  IF st.eprev <= 0 /\ enext > 0
        THEN [st EXCEPT !.rtan = currentCoords, !.eprev = enext]
        ELSE IF st.eprev > 0 /\ enext <= 0
        THEN IF st.ltan = undefined
             THEN [st EXCEPT !.crashed = TRUE]
             ELSE IF ~isAbove(ptCoords, currentCoords, st.ltan)
                  THEN [st EXCEPT !.ltan = currentCoords, !.eprev = enext]
                  ELSE [st EXCEPT !.eprev = enext]
        ELSE [st EXCEPT !.eprev = enext]

\* eprev is not updated at the end of the iteration
sweepIterationStaleEprev(polygonCoords, ptCoords, k, st) ==
    LET currentCoords == polygonCoords[k + 1]
        nextCoordPair == IF k = Len(polygonCoords) - 1
                         THEN polygonCoords[1]
                         ELSE polygonCoords[k + 2]
        enext == isLeft(currentCoords, nextCoordPair, ptCoords)
    IN  IF st.eprev <= 0 /\ enext > 0
        THEN IF st.rtan = undefined
             THEN [st EXCEPT !.crashed = TRUE]
             ELSE IF ~isBelow(ptCoords, currentCoords, st.rtan)
                  THEN [st EXCEPT !.rtan = currentCoords]
                  ELSE st
        ELSE IF st.eprev > 0 /\ enext <= 0
        THEN IF st.ltan = undefined
             THEN [st EXCEPT !.crashed = TRUE]
             ELSE IF ~isAbove(ptCoords, currentCoords, st.ltan)
                  THEN [st EXCEPT !.ltan = currentCoords]
                  ELSE st
        ELSE st

\* --------------------------------------------------------------------------
\* processPolygon: one iteration of its loop, on the record
\* [eprev, rtan, ltan, crashed] of its locals.  Reading a coordinate of an
\* undefined rtan or ltan throws a TypeError.
sweepIteration(polygonCoords, ptCoords, k, st) ==
    LET currentCoords == polygonCoords[k + 1]
        nextCoordPair == IF k = Len(polygonCoords) - 1
                         THEN polygonCoords[1]
                         ELSE polygonCoords[k + 2]
        enext == isLeft(currentCoords, nextCoordPair, ptCoords)
    IN  IF st.eprev <= 0 /\ enext > 0
        THEN IF st.rtan = undefined
             THEN [st EXCEPT !.crashed = TRUE]
             ELSE IF ~isBelow(ptCoords, currentCoords, st.rtan)
                  THEN [st EXCEPT !.rtan = currentCoords, !.eprev = enext]
                  ELSE [st EXCEPT !.eprev = enext]
        ELSE IF st.eprev > 0 /\ enext <= 0
        THEN IF st.ltan = undefined
             THEN [st EXCEPT !.crashed = TRUE]
             ELSE IF ~isAbove(ptCoords, currentCoords, st.ltan)
                  THEN [st EXCEPT !.ltan = currentCoords, !.eprev = enext]
                  ELSE [st EXCEPT !.eprev = enext]
        ELSE [st EXCEPT !.eprev = enext]

RECURSIVE sweepFrom(_, _, _, _)
sweepFrom(polygonCoords, ptCoords, k, st) ==
    IF st.crashed \/ k >= Len(polygonCoords) THEN st
    ELSE sweepFrom(polygonCoords, ptCoords, k + 1,
                   sweepIteration(polygonCoords, ptCoords, k, st))

processPolygon(polygonCoords, ptCoords, e, r, l) ==
    sweepFrom(polygonCoords, ptCoords, 0,
              [eprev |-> e, rtan |-> r, ltan |-> l, crashed |-> FALSE])

\* --------------------------------------------------------------------------
\* polygonTangents, up to the first call of processPolygon

\* the bbox test and the nearest-vertex lookup
lookup(pt, t, coords) ==
    IF insideBbox(pt, t, coords)
    THEN LET vs == explode(t, coords)
             k == nearestPoint(pt, vs)
         IN  [nearest |-> vs[k + 1], nearestPtIndex |-> k]
    ELSE [nearest |-> null, nearestPtIndex |-> 0]

\* case "MultiPolygon": the two loops over polyCoords[0]; the result is
\* <<closestFeature, closestVertex>>
RECURSIVE resolveFrom(_, _, _, _, _, _, _)
resolveFrom(first, idx, f, v, cf, cv, counted) ==
    IF f >= Len(first) THEN <<cf, cv>>
    ELSE IF v >= Len(first[f + 1])
         THEN resolveFrom(first, idx, f + 1, 0, IF f + 1 < Len(first) THEN f + 1 ELSE cf,
                          cv, counted)
         ELSE IF counted = idx THEN <<f, v>>
              ELSE resolveFrom(first, idx, f, v + 1, f, v, counted + 1)

resolveIndex(first, idx) ==
    IF Len(first) = 0 THEN <<0, 0>>
    ELSE resolveFrom(first, idx, 0, 0, 0, 0, 0)

\* seedPolygon with ltan always seeded to the first vertex
seedPolygonFirstLtan(pt, coords, lk) ==
    LET ring == coords[1]
        first == At(ring, 0)
        last == At(ring, Len(ring) - 1)
        r == At(ring, lk.nearestPtIndex)
    IN  IF first = undefined \/ last = undefined
        THEN [rtan |-> r, ltan |-> first, eprev |-> undefined, crashed |-> TRUE]
        ELSE [rtan |-> r, ltan |-> first, eprev |-> isLeft(first, last, pt),
              crashed |-> FALSE]

\* the seeds [rtan, ltan, eprev, crashed]; evaluating isLeft on an undefined
\* vertex throws a TypeError
seedPolygon(pt, coords, lk) ==
    LET ring == coords[1]
        first == At(ring, 0)
        last == At(ring, Len(ring) - 1)
        r == At(ring, lk.nearestPtIndex)
        l == IF lk.nearest # null /\ lk.nearest[2] < pt[2]
             THEN At(ring, lk.nearestPtIndex)
             ELSE At(ring, 0)
    IN  IF first = undefined \/ last = undefined
        THEN [rtan |-> r, ltan |-> l, eprev |-> undefined, crashed |-> TRUE]
        ELSE [rtan |-> r, ltan |-> l, eprev |-> isLeft(first, last, pt),
              crashed |-> FALSE]

seedMultiPolygon(pt, coords, lk) ==
    LET closest == resolveIndex(coords[1], lk.nearestPtIndex)
        ring == coords[1][closest[1] + 1]
        r == At(ring, closest[2])
        outer == coords[1][1]
        first == At(outer, 0)
        last == At(outer, Len(outer) - 1)
    IN  IF first = undefined \/ last = undefined
        THEN [rtan |-> r, ltan |-> r, eprev |-> undefined, crashed |-> TRUE]
        ELSE [rtan |-> r, ltan |-> r, eprev |-> isLeft(first, last, pt),
              crashed |-> FALSE]

seed(pt, t, coords, lk) ==
    IF t = "Polygon" THEN seedPolygon(pt, coords, lk)
    ELSE seedMultiPolygon(pt, coords, lk)

\* the rings processPolygon is called on, in call order
sweptRings(t, coords) ==
    IF t = "Polygon" THEN <<coords[1]>>
    ELSE [k \in 1..Len(coords) |-> coords[k][1]]

\* --------------------------------------------------------------------------
\* The actions

InitOn(inputs) ==
    /\ \E inp \in inputs :
          /\ type = inp.type
          /\ polyCoords = inp.polyCoords
          /\ pointCoords = inp.pt
    /\ nearestPtIndex = 0
    /\ nearest = null
    /\ rtan = empty
    /\ ltan = empty
    /\ eprev = undefined
    /\ ringIdx = 0
    /\ i = 0
    /\ s_eprev = undefined
    /\ s_rtan = undefined
    /\ s_ltan = undefined
    /\ endEprev = undefined
    /\ edgeEvals = 0
    /\ steps = 0
    /\ pc = "start"

curRing == sweptRings(type, polyCoords)[ringIdx + 1]

\* lines 36-102: bbox test, nearest lookup, seeds, first call of processPolygon
Seed ==
    /\ pc = "start"
    /\ LET lk == lookup(pointCoords, type, polyCoords)
           sd == seed(pointCoords, type, polyCoords, lk)
       IN  /\ nearest' = lk.nearest
           /\ nearestPtIndex' = lk.nearestPtIndex
           /\ rtan' = sd.rtan
           /\ ltan' = sd.ltan
           /\ eprev' = sd.eprev
           /\ IF sd.crashed
              THEN /\ pc' = "crashed"
                   /\ UNCHANGED <<s_eprev, s_rtan, s_ltan>>
              ELSE /\ pc' = "sweep"
                   /\ s_eprev' = sd.eprev
                   /\ s_rtan' = sd.rtan
                   /\ s_ltan' = sd.ltan
    /\ steps' = steps + 1
    /\ UNCHANGED <<type, polyCoords, pointCoords, ringIdx, i, endEprev, edgeEvals>>

\* line 118: processPolygon's loop condition, and its negation
inLoop == pc = "sweep" /\ i < Len(curRing)

loopOver == pc = "sweep" /\ i = Len(curRing)

\* lines 118-135: one iteration of processPolygon's loop
SweepEdge ==
    /\ inLoop
    /\ LET st == sweepIteration(curRing, pointCoords, i,
                    [eprev |-> s_eprev, rtan |-> s_rtan, ltan |-> s_ltan,
                     crashed |-> FALSE])
       IN  /\ s_eprev' = st.eprev
           /\ s_rtan' = st.rtan
           /\ s_ltan' = st.ltan
           /\ pc' = IF st.crashed THEN "crashed" ELSE "sweep"
           /\ i' = IF st.crashed THEN i ELSE i + 1
    /\ edgeEvals' = edgeEvals + 1
    /\ steps' = steps + 1
    /\ UNCHANGED <<type, polyCoords, pointCoords, nearestPtIndex, nearest, rtan,
                   ltan, eprev, ringIdx, endEprev>>

\* SweepReturn with processPolygon's final eprev passed to the next call
SweepReturnThreaded ==
    /\ loopOver
    /\ rtan' = s_rtan
    /\ ltan' = s_ltan
    /\ endEprev' = s_eprev
    /\ IF type = "MultiPolygon" /\ ringIdx + 1 < Len(polyCoords)
       THEN /\ ringIdx' = ringIdx + 1
            /\ i' = 0
            /\ pc' = "sweep"
            /\ UNCHANGED <<s_eprev, s_rtan, s_ltan>>
       ELSE /\ pc' = "package"
            /\ UNCHANGED <<ringIdx, i, s_eprev, s_rtan, s_ltan>>
    /\ steps' = steps + 1
    /\ UNCHANGED <<type, polyCoords, pointCoords, nearestPtIndex, nearest, eprev,
                   edgeEvals>>

\* line 136 and lines 71, 104: processPolygon returns [rtan, ltan], the caller
\* assigns them, and forEach calls processPolygon on the next polygon, passing
\* the caller's eprev, rtan and ltan
SweepReturn ==
    /\ loopOver
    /\ rtan' = s_rtan
    /\ ltan' = s_ltan
    /\ endEprev' = s_eprev
    /\ IF type = "MultiPolygon" /\ ringIdx + 1 < Len(polyCoords)
       THEN /\ ringIdx' = ringIdx + 1
            /\ i' = 0
            /\ s_eprev' = eprev
            /\ UNCHANGED <<s_rtan, s_ltan>>
            /\ pc' = "sweep"
       ELSE /\ pc' = "package"
            /\ UNCHANGED <<ringIdx, i, s_eprev, s_rtan, s_ltan>>
    /\ steps' = steps + 1
    /\ UNCHANGED <<type, polyCoords, pointCoords, nearestPtIndex, nearest, eprev,
                   edgeEvals>>

\* line 108: point(rtan), point(ltan); point() throws when given no coordinates
Package ==
    /\ pc = "package"
    /\ pc' = IF rtan = undefined \/ ltan = undefined THEN "crashed" ELSE "done"
    /\ steps' = steps + 1
    /\ UNCHANGED <<type, polyCoords, pointCoords, nearestPtIndex, nearest, rtan,
                   ltan, eprev, ringIdx, i, s_eprev, s_rtan, s_ltan, endEprev,
                   edgeEvals>>

Next == Seed \/ SweepEdge \/ SweepReturn \/ Package

\* --------------------------------------------------------------------------
\* polygonTangents as a function of its arguments: [rtan, ltan, crashed]
RECURSIVE sweepAll(_, _, _, _, _)
sweepAll(rings, pt, e, k, st) ==
    IF st.crashed \/ k > Len(rings) THEN st
    ELSE LET res == processPolygon(rings[k], pt, e, st.rtan, st.ltan)
         IN  sweepAll(rings, pt, e, k + 1, res)

polygonTangents(pt, t, coords) ==
    LET lk == lookup(pt, t, coords)
        sd == seed(pt, t, coords, lk)
    IN  IF sd.crashed THEN [rtan |-> sd.rtan, ltan |-> sd.ltan, crashed |-> TRUE]
        ELSE LET res == sweepAll(sweptRings(t, coords), pt, sd.eprev, 1,
                                 [eprev |-> sd.eprev, rtan |-> sd.rtan,
                                  ltan |-> sd.ltan, crashed |-> FALSE])
             IN  [rtan |-> res.rtan, ltan |-> res.ltan,
                  crashed |-> res.crashed \/ res.rtan = undefined
                                          \/ res.ltan = undefined]

\* --------------------------------------------------------------------------
\* Inputs
polygonOf(rings, pt) == [type |-> "Polygon", polyCoords |-> rings, pt |-> pt]

multiPolygonOf(polys, pt) == [type |-> "MultiPolygon", polyCoords |-> polys, pt |-> pt]

\* the stored form of a ring: its vertices, the first repeated as the last
close(q) == Append(q, q[1])

isClosed(ring) == Len(ring) >= 2 /\ ring[1] = ring[Len(ring)]

\* vertex k of the cyclic vertex sequence q, k counted from 0
cyc(q, k) == q[(k % Len(q)) + 1]

dot(o, a, b) == (a[1] - o[1]) * (b[1] - o[1]) + (a[2] - o[2]) * (b[2] - o[2])

\* c lies on the segment from a to b
onSegment(a, b, c) == isLeft(a, b, c) = 0 /\ dot(c, a, b) <= 0

sgn(n) == IF n > 0 THEN 1 ELSE IF n < 0 THEN 0 - 1 ELSE 0

segmentsMeet(a, b, c, d) ==
    \/ /\ sgn(isLeft(a, b, c)) * sgn(isLeft(a, b, d)) < 0
       /\ sgn(isLeft(c, d, a)) * sgn(isLeft(c, d, b)) < 0
    \/ onSegment(a, b, c) \/ onSegment(a, b, d)
    \/ onSegment(c, d, a) \/ onSegment(c, d, b)

\* the cyclic vertex sequence q bounds a simple polygon: distinct vertices,
\* consecutive edges that do not fold back, other edges that do not meet
isSimple(q) ==
    LET n == Len(q) IN
    /\ n >= 3
    /\ \A j \in 1..n : \A k \in (j + 1)..n : q[j] # q[k]
    /\ \A k \in 0..(n - 1) :
          ~(/\ isLeft(cyc(q, k), cyc(q, k + 1), cyc(q, k + 2)) = 0
            /\ dot(cyc(q, k + 1), cyc(q, k), cyc(q, k + 2)) > 0)
    /\ \A j, k \in 0..(n - 1) :
          (j < k /\ k # j + 1 /\ (k + 1) % n # j) =>
              ~segmentsMeet(cyc(q, j), cyc(q, j + 1), cyc(q, k), cyc(q, k + 1))

\* every vertex lies on or to one side of every edge
isConvex(q) ==
    LET n == Len(q) IN
    \/ \A k \in 0..(n - 1), v \in Range(q) : isLeft(cyc(q, k), cyc(q, k + 1), v) >= 0
    \/ \A k \in 0..(n - 1), v \in Range(q) : isLeft(cyc(q, k), cyc(q, k + 1), v) <= 0

translate(ring, d) == [k \in 1..Len(ring) |-> <<ring[k][1] + d[1], ring[k][2] + d[2]>>]

SimpleRings ==
    UNION {{close(q) : q \in {r \in DistinctSeqs(Grid, n) : isSimple(r)}} : n \in 3..MaxOpen}

Square4 == <<<<0, 0>>, <<4, 0>>, <<4, 4>>, <<0, 4>>, <<0, 0>>>>

\* a Polygon of one closed simple ring, and the square of side 4 seen from
\* (8, 2) and from the points strictly inside its bounding box
ClosedInputs ==
    {polygonOf(<<ring>>, pt) : ring \in SimpleRings, pt \in RefPoints}
    \cup {polygonOf(<<Square4>>, pt) : pt \in {<<8, 2>>} \cup ((1..3) \X (1..3))}

\* a Polygon of one ring of up to MaxRingLen stored positions, closed or not
RingInputs ==
    {polygonOf(<<ring>>, pt) :
        ring \in SeqsUpTo((0..2) \X (0..1), MaxRingLen),
        pt \in ((0 - 1)..3) \X ((0 - 1)..2)}

\* the square of side 4 with a triangular hole
HoleRings ==
    {translate(close(q), <<1, 1>>) : q \in {r \in DistinctSeqs(Grid, 3) : isSimple(r)}}

HoleInputs ==
    {polygonOf(<<Square4, hole>>, pt) :
        hole \in HoleRings, pt \in {<<8, 2>>} \cup ((0..4) \X (0..4))}

\* a MultiPolygon of up to MaxPolys polygons of one ring each, polygon k
\* moved by (2k, k) so that the polygons are disjoint
UnitRings ==
    { <<<<0, 0>>, <<1, 0>>, <<1, 1>>, <<0, 1>>, <<0, 0>>>>,
      <<<<0, 0>>, <<0, 1>>, <<1, 1>>, <<1, 0>>, <<0, 0>>>>,
      <<<<0, 0>>, <<1, 0>>, <<0, 1>>, <<0, 0>>>>,
      <<<<0, 0>>, <<1, 0>>, <<1, 1>>, <<0, 1>>>>,
      <<<<1, 0>>, <<1, 1>>, <<0, 1>>>>,
      <<<<0, 0>>, <<0, 1>>, <<1, 1>>>> }

placed(rings) ==
    [k \in 1..Len(rings) |-> <<translate(rings[k], <<2 * (k - 1), k - 1>>)>>]

MultiInputs ==
    {multiPolygonOf(placed(rings), pt) :
        rings \in SeqsUpTo(UnitRings, MaxPolys) \ {<<>>},
        pt \in ((0 - 1)..(2 * MaxPolys)) \X ((0 - 1)..(MaxPolys + 1))}

Init == InitOn(ClosedInputs)
Spec == Init /\ [][Next]_vars

InitGeom == InitOn(RingInputs \cup HoleInputs \cup MultiInputs)
SpecGeom == InitGeom /\ [][Next]_vars

\* --------------------------------------------------------------------------
\* Vocabulary of the properties
terminated == pc \in {"done", "crashed"}

lookedUp == nearest # null

vertices == Range(explode(type, polyCoords))

ring0 == polyCoords[1]

\* the vertices of the closed ring ring0, without the closing duplicate
openRing == SubSeq(ring0, 1, Len(ring0) - 1)

onBoundary(q, pt) == \E k \in 0..(Len(q) - 1) : onSegment(cyc(q, k), cyc(q, k + 1), pt)

\* the edges a ray from pt towards +x crosses
crossings(q, pt) ==
    {k \in 0..(Len(q) - 1) :
        LET a == cyc(q, k)
            b == cyc(q, k + 1)
        IN  \/ a[2] <= pt[2] /\ pt[2] < b[2] /\ isLeft(a, b, pt) > 0
            \/ b[2] <= pt[2] /\ pt[2] < a[2] /\ isLeft(a, b, pt) < 0}

outsidePolygon(q, pt) == ~onBoundary(q, pt) /\ Cardinality(crossings(q, pt)) % 2 = 0

\* no two vertices of q lie on one line through pt
generalPosition(q, pt) == \A j, k \in 1..Len(q) : j # k => isLeft(pt, q[j], q[k]) # 0

rotate(q, k) == [j \in 1..Len(q) |-> cyc(q, j - 1 + k)]

reflect(p) == <<p[1], 0 - p[2]>>

reflectRing(q) == [k \in 1..Len(q) |-> reflect(q[k])]

RECURSIVE sumLen(_)
sumLen(rings) == IF rings = <<>> THEN 0 ELSE Len(Head(rings)) + sumLen(Tail(rings))

ResultAgrees ==
    terminated =>
        LET res == polygonTangents(pointCoords, type, polyCoords)
        IN  /\ res.crashed = (pc = "crashed")
            /\ pc = "done" => res.rtan = rtan /\ res.ltan = ltan

\* the rings of the geometry, holes included
allRings == IF type = "Polygon" THEN polyCoords ELSE Flatten(polyCoords)

\* every ring is a linear ring: closed, with four or more positions
linearRings == \A k \in 1..Len(allRings) : Len(allRings[k]) >= 4 /\ isClosed(allRings[k])

\* --------------------------------------------------------------------------
\* C1: once the seeds are read, rtan and ltan are vertices of the input
\* geometry (never an undefined element), for Polygons and MultiPolygons with
\* or without holes, and the call does not fail.
C1_VertexMembership ==
    (pc # "start" /\ linearRings) =>
        (pc # "crashed" /\ rtan \in vertices /\ ltan \in vertices)

\* --------------------------------------------------------------------------
\* C2: for a convex closed ring and a reference point that is not strictly
\* inside the bounding box and lies outside the polygon, every vertex lies on
\* or to the left of the line from the reference point through rtan and on or
\* to the right of the line through ltan; the square of side 4 seen from
\* (8, 2) gives rtan = (4, 4) and ltan = (4, 0).
C2_ConvexSupporting ==
    (terminated /\ ~lookedUp /\ isConvex(openRing)
        /\ outsidePolygon(openRing, pointCoords)) =>
        /\ pc = "done"
        /\ \A v \in vertices : isLeft(pointCoords, rtan, v) >= 0
        /\ \A v \in vertices : isLeft(pointCoords, ltan, v) <= 0
        /\ (ring0 = Square4 /\ pointCoords = <<8, 2>>) =>
               (rtan = <<4, 4>> /\ ltan = <<4, 0>>)

C2_Witness ==
    /\ pc = "done" /\ ring0 = Square4 /\ pointCoords = <<8, 2>>
    /\ rtan = <<4, 4>> /\ ltan = <<4, 0>>

\* --------------------------------------------------------------------------
\* C3: on a MultiPolygon, when the nearest-vertex lookup is performed, the
\* seed of rtan and of ltan is the nearest vertex itself.
C3_SeedIsNearest ==
    (type = "MultiPolygon" /\ lookedUp /\ linearRings
        /\ pc = "sweep" /\ ringIdx = 0 /\ i = 0) =>
        (s_rtan = nearest /\ s_ltan = nearest)

reflectionSwaps ==
    LET res == polygonTangents(reflect(pointCoords), type, <<reflectRing(ring0)>>)
    IN  ~res.crashed /\ res.rtan = reflect(ltan) /\ res.ltan = reflect(rtan)

\* C5 as claimed: reflecting a Polygon and the reference point across the
\* x-axis swaps the labels and reflects the two points, for every Polygon and
\* reference point.
C5_ReflectionSwaps == terminated => (pc = "done" /\ reflectionSwaps)

\* C5 as amended: the same, for a reference point that is not strictly inside
\* the bounding box and is not on one line with any two vertices of the ring.
C5_ReflectionSwapsGeneral ==
    (terminated /\ ~lookedUp /\ generalPosition(openRing, pointCoords)) =>
        (pc = "done" /\ reflectionSwaps)

C5_Witness ==
    /\ pc = "done" /\ ~lookedUp /\ generalPosition(openRing, pointCoords)
    /\ ~isConvex(openRing) /\ rtan # ltan /\ reflectionSwaps

\* --------------------------------------------------------------------------
\* the swept rings with 0, 1 or 2 positions, or with coincident vertices only
pathological ==
    \A k \in 1..Len(sweptRings(type, polyCoords)) :
        LET ring == sweptRings(type, polyCoords)[k]
        IN  Len(ring) <= 2 \/ Cardinality(Range(ring)) <= 1

\* C6: on pathological outer rings the call completes; it never fails by
\* reading a coordinate of an undefined vertex.
C6_NoCrash == pathological => pc # "crashed"

\* --------------------------------------------------------------------------
\* a sweep of a later ring of a MultiPolygon is about to start
laterSweepStarts == type = "MultiPolygon" /\ pc = "sweep" /\ ringIdx >= 1 /\ i = 0

\* C7 as claimed: the sweep of ring k + 1 starts with the eprev, rtan and ltan
\* the sweep of ring k ended with.
C7_StateThreaded ==
    laterSweepStarts => (s_eprev = endEprev /\ s_rtan = rtan /\ s_ltan = ltan)

\* C7 as amended: the sweep of ring k + 1 starts with the rtan and ltan the
\* sweep of ring k returned, and with the eprev seeded from the first
\* polygon's outer ring; that is the eprev ring k ended with when ring k and
\* the first ring are stored closed (both are then zero).
C7_TangentsThreaded ==
    laterSweepStarts =>
        /\ s_rtan = rtan /\ s_ltan = ltan
        /\ s_eprev = eprev
        /\ s_eprev = isLeft(polyCoords[1][1][1],
                            polyCoords[1][1][Len(polyCoords[1][1])], pointCoords)
        /\ (isClosed(polyCoords[1][1]) /\ isClosed(polyCoords[ringIdx][1])) =>
               (s_eprev = 0 /\ endEprev = 0)

C7_Witness == laterSweepStarts /\ endEprev # s_eprev /\ s_rtan # polyCoords[1][1][1]

\* --------------------------------------------------------------------------
\* the next iteration is the one of the closing edge of a ring stored closed
atClosingEdge == pc = "sweep" /\ isClosed(curRing) /\ i = Len(curRing) - 1

\* C8 as claimed: the iteration of the closing edge leaves rtan and ltan as
\* they were.
C8_ClosingEdgeInert ==
    [][atClosingEdge => (s_rtan' = s_rtan /\ s_ltan' = s_ltan)]_vars

\* C8 as amended: the closing edge has orientation zero and its iteration
\* leaves rtan as it was; it leaves ltan as it was when eprev <= 0, and when
\* eprev > 0 it sets ltan to the ring's first vertex unless ltan is above the
\* line from the reference point through that vertex.
C8_ClosingEdgeKeepsRtan ==
    [][atClosingEdge =>
          /\ pc' = "sweep"
          /\ s_eprev' = 0
          /\ s_rtan' = s_rtan
          /\ s_ltan' = IF s_eprev > 0 /\ isLeft(pointCoords, curRing[1], s_ltan) <= 0
                       THEN curRing[1]
                       ELSE s_ltan]_vars

C8_Witness ==
    /\ pc = "sweep" /\ isClosed(curRing) /\ i = Len(curRing) /\ ~lookedUp
    /\ outsidePolygon(openRing, pointCoords)
    /\ s_ltan = curRing[1]
    /\ processPolygon(openRing, pointCoords, eprev, rtan, ltan).ltan # curRing[1]

\* --------------------------------------------------------------------------
\* the number of steps the call still takes, at most
RECURSIVE later(_, _)
later(rings, k) == IF k > Len(rings) THEN 0 ELSE Len(rings[k]) + 1 + later(rings, k + 1)

measure ==
    LET rings == sweptRings(type, polyCoords)
    IN  CASE pc = "start" -> 3 + later(rings, 1)
          [] pc = "sweep" -> 2 + (Len(curRing) - i) + later(rings, ringIdx + 2)
          [] pc = "package" -> 1
          [] OTHER -> 0

\* a step is possible: the guards of Seed, SweepEdge, SweepReturn and Package
canStep == pc = "start" \/ inLoop \/ loopOver \/ pc = "package"

\* C9: the call terminates (a step is possible until the call is over, and the
\* steps taken plus a natural-number measure of the steps left never exceed
\* the measure of the start); the sweeps evaluate one edge per stored position
\* of the swept rings; a Polygon whose ring has three positions is swept in
\* exactly three edge evaluations and returns two points of that ring.
C9_SweepLength ==
    /\ measure >= 0
    /\ steps + measure <= 3 + later(sweptRings(type, polyCoords), 1)
    /\ terminated \/ canStep
    /\ edgeEvals <= sumLen(sweptRings(type, polyCoords))
    /\ pc \in {"package", "done"} => edgeEvals = sumLen(sweptRings(type, polyCoords))
    /\ (terminated /\ type = "Polygon" /\ Len(polyCoords) = 1 /\ Len(ring0) = 3) =>
           /\ pc = "done" /\ edgeEvals = 3
           /\ rtan \in Range(ring0) /\ ltan \in Range(ring0)

C9_Witness ==
    /\ pc = "done" /\ type = "Polygon" /\ Len(polyCoords) = 1 /\ Len(ring0) = 3
    /\ edgeEvals = 3 /\ rtan # ltan

\* --------------------------------------------------------------------------
\* the result does not depend on the vertex the stored ring starts at
startIndependent ==
    \A k \in 1..(Len(openRing) - 1) :
        LET res == polygonTangents(pointCoords, type, <<close(rotate(openRing, k))>>)
        IN  ~res.crashed /\ res.rtan = rtan /\ res.ltan = ltan

\* C10 as claimed: for a closed ring and a reference point not strictly inside
\* the bounding box, the result is the same whichever vertex the stored ring
\* starts at.
C10_StartIndependent == (terminated /\ ~lookedUp) => (pc = "done" /\ startIndependent)

\* C10 as amended: the same, when no two vertices lie on one line through the
\* reference point, or when the ring is convex and the reference point lies
\* outside the polygon.
C10_StartIndependentGeneral ==
    (terminated /\ ~lookedUp
        /\ \/ generalPosition(openRing, pointCoords)
           \/ isConvex(openRing) /\ outsidePolygon(openRing, pointCoords)) =>
        (pc = "done" /\ startIndependent)

C10_Witness ==
    /\ pc = "done" /\ ~lookedUp /\ generalPosition(openRing, pointCoords)
    /\ ~isConvex(openRing) /\ rtan # ltan /\ rtan # ring0[1] /\ ltan # ring0[1]
    /\ startIndependent

====
